---- MODULE Spec2Model ----
(***************************************************************************)
(* A model of gazelle/resolve.go of rules_python: the dependency resolver  *)
(* (Resolver.Resolve), the package tree used by glob (BazelPackageTree),   *)
(* the srcs expression evaluator (evalSrcsExpr, Globber.Glob) and the      *)
(* import-spec derivation (importSpecFromSrc, Resolver.Imports).           *)
(*                                                                         *)
(* Go strings are modelled as sequences of one-character strings, so that  *)
(* prefix tests, replacement, trimming and byte-wise comparison are        *)
(* computed as the code computes them.                                     *)
(***************************************************************************)
EXTENDS Integers, Sequences, FiniteSets, Bags, TLC

VARIABLES
    pc,                 \* position of the modelled call
    from,               \* Resolve: label of the rule being resolved
    modulesRaw,         \* Resolve: {} when nil, else {the module-import set}
    validate,           \* Resolve: cfg.ValidateImportStatements()
    pythonProjectRoot,  \* Resolve: cfg.PythonProjectRoot()
    resolvedDeps,       \* Resolve: r.PrivateAttr(resolvedDepsKey), a set of strings
    deps,               \* Resolve: the treeset of dependencies, kept as its sorted sequence
    hasFatalError,      \* Resolve: the flag of the module loop
    it,                 \* Resolve: the modules the iterator has not yet returned
    cur,                \* Resolve: module of the last iteration, what the collaborators
                        \*          hold for it, and what the iteration did
    resolved,           \* Resolve: the labels the iterations have added so far
    errlog,             \* Resolve: the ERROR lines logged, as (module, kind) pairs
    depsAttr,           \* Resolve: {} while r has no deps attribute, else {its list}
    exitStatus,         \* Resolve: 0 until os.Exit(1)
    fsBuild,            \* tree: the directories that hold a build file
    tree,               \* tree: the nodes of the BazelPackageTree, keyed by their path
    inserted,           \* tree: the paths given to AddPath so far
    lastAdd,            \* tree: the last AddPath call: its path and the tree before it
    srcsExpr,           \* evalSrcsExpr: the expression given
    srcsResult,         \* evalSrcsExpr: what was returned
    impIn,              \* Imports: the rule given (package, imports, srcs)
    provides            \* Imports: the ImportSpecs returned

vars == <<pc, from, modulesRaw, validate, pythonProjectRoot, resolvedDeps, deps,
          hasFatalError, it, cur, resolved, errlog, depsAttr, exitStatus,
          fsBuild, tree, inserted, lastAdd, srcsExpr, srcsResult, impIn, provides>>

resolveVars == <<from, modulesRaw, validate, pythonProjectRoot, resolvedDeps, deps,
                 hasFatalError, it, cur, resolved, errlog, depsAttr, exitStatus>>
treeVars == <<fsBuild, tree, inserted, lastAdd>>
evalVars == <<srcsExpr, srcsResult>>
importsVars == <<impIn, provides>>

(***************************************************************************)
(* Strings                                                                 *)
(***************************************************************************)

\* The byte value of a character (ASCII), for the characters the model uses.
Code(c) ==
    CASE c = "-" -> 45 [] c = "." -> 46 [] c = "/" -> 47 [] c = ":" -> 58
      [] c = "@" -> 64 [] c = "N" -> 78 [] c = "_" -> 95
      [] c = "a" -> 97 [] c = "b" -> 98 [] c = "c" -> 99 [] c = "d" -> 100
      [] c = "e" -> 101 [] c = "i" -> 105 [] c = "k" -> 107 [] c = "l" -> 108
      [] c = "m" -> 109 [] c = "n" -> 110 [] c = "o" -> 111 [] c = "p" -> 112 [] c = "r" -> 114
      [] c = "s" -> 115 [] c = "t" -> 116 [] c = "x" -> 120 [] c = "y" -> 121

\* godsutils.StringComparator: byte-wise comparison, then by length.
RECURSIVE StringComparator(_, _)
StringComparator(a, b) ==
    IF a = <<>> /\ b = <<>> THEN 0
    ELSE IF a = <<>> THEN -1
    ELSE IF b = <<>> THEN 1
    ELSE IF Code(Head(a)) < Code(Head(b)) THEN -1
    ELSE IF Code(Head(a)) > Code(Head(b)) THEN 1
    ELSE StringComparator(Tail(a), Tail(b))

\* strings.HasPrefix
HasPrefix(s, prefix) ==
    /\ Len(prefix) <= Len(s)
    /\ SubSeq(s, 1, Len(prefix)) = prefix

\* strings.HasSuffix
HasSuffix(s, suffix) ==
    /\ Len(suffix) <= Len(s)
    /\ SubSeq(s, Len(s) - Len(suffix) + 1, Len(s)) = suffix

\* strings.ToLower, on one character
LowerChar(c) == IF c = "N" THEN "n" ELSE c

\* strings.ToLower
ToLower(s) == [i \in 1..Len(s) |-> LowerChar(s[i])]

\* strings.ReplaceAll for a one-character old and new
ReplaceAll(s, old, new) == [i \in 1..Len(s) |-> IF s[i] = old THEN new ELSE s[i]]

\* The positions of "/" in s
SlashPositions(s) == {i \in 1..Len(s) : s[i] = "/"}

\* The greatest element of a non-empty set of integers
MaxOf(S) == CHOOSE x \in S : \A y \in S : y <= x

\* The least element of a non-empty set of integers
MinOf(S) == CHOOSE x \in S : \A y \in S : x <= y

\* path.Base / filepath.Base for a path without trailing slash
PathBase(p) ==
    IF p = <<>> THEN <<".">>
    ELSE IF SlashPositions(p) = {} THEN p
    ELSE SubSeq(p, MaxOf(SlashPositions(p)) + 1, Len(p))

\* The values of a sequence
Range(seq) == {seq[i] : i \in 1..Len(seq)}

(***************************************************************************)
(* Labels (bazel-gazelle label.Label)                                      *)
(***************************************************************************)

\* label.New
LabelNew(repo, pkg, name) == [Repo |-> repo, Pkg |-> pkg, Name |-> name, Relative |-> FALSE]

\* Label.Equal
LabelEqual(a, b) ==
    /\ a.Repo = b.Repo
    /\ a.Pkg = b.Pkg
    /\ a.Name = b.Name
    /\ a.Relative = b.Relative

\* Label.String
LabelString(l) ==
    IF l.Relative THEN <<":">> \o l.Name
    ELSE LET repo == IF l.Repo # <<>> /\ l.Repo # <<"@">> THEN <<"@">> \o l.Repo ELSE l.Repo
         IN IF PathBase(l.Pkg) = l.Name
            THEN repo \o <<"/", "/">> \o l.Pkg
            ELSE repo \o <<"/", "/">> \o l.Pkg \o <<":">> \o l.Name

\* Label.Rel
LabelRel(l, repo, pkg) ==
    IF l.Relative \/ l.Repo # repo THEN l
    ELSE IF l.Pkg = pkg THEN [Repo |-> <<>>, Pkg |-> <<>>, Name |-> l.Name, Relative |-> TRUE]
    ELSE [Repo |-> <<>>, Pkg |-> l.Pkg, Name |-> l.Name, Relative |-> FALSE]

(***************************************************************************)
(* Resolver.Resolve                                                        *)
(***************************************************************************)

\* The largest module-import set of a rule
MaxModules == 2

\* The largest number of rules the index returns for one import
MaxMatches == 2

\* modulesRaw is {} when nil, and {the set of modules} otherwise
NilModules == {}

\* The rule being resolved: //a:x of the repository r (c.RepoName)
FromLabel == LabelNew(<<"r">>, <<"a">>, <<"x">>)

\* The labels gazelle:resolve directives name (absolute, as the directive parser
\* stores them): //a:x (the rule itself), its sibling //a:y, and @o//a:x of
\* another repository
OverrideLabels ==
    {LabelNew(<<>>, <<"a">>, <<"x">>), LabelNew(<<>>, <<"a">>, <<"y">>),
     LabelNew(<<"o">>, <<"a">>, <<"x">>)}

\* The rules of the index, all of the repository of the resolving rule: the rule
\* itself, its sibling :y, //a/b:lib, //c/d:lib and //e:lib
IndexLabels(f) ==
    {LabelNew(f.Repo, <<"a">>, <<"x">>), LabelNew(f.Repo, <<"a">>, <<"y">>),
     LabelNew(f.Repo, <<"a", "/", "b">>, <<"l", "i", "b">>),
     LabelNew(f.Repo, <<"c", "/", "d">>, <<"l", "i", "b">>),
     LabelNew(f.Repo, <<"e">>, <<"l", "i", "b">>)}

\* The distributions of the modules mapping
Distributions == {<<"N", "-", "p">>}

\* The configured project roots
ProjectRoots == {<<>>, <<"a">>}

\* The labels the generator passes as already resolved: ":y" and "//k:b"
ResolvedDepsUniverse == {<<":", "y">>, <<"/", "/", "k", ":", "b">>}

\* cfg.PipRepository()
PipRepository == <<"p", "i", "p">>

\* What the index holds for a module that an override or the mapping also matches:
\* nothing, the sibling :y, the rule itself, or //a/b:lib and //c/d:lib
ShadowedMatches(f) ==
    {{}, {LabelNew(f.Repo, <<"a">>, <<"y">>)}, {LabelNew(f.Repo, <<"a">>, <<"x">>)},
     {LabelNew(f.Repo, <<"a", "/", "b">>, <<"l", "i", "b">>),
      LabelNew(f.Repo, <<"c", "/", "d">>, <<"l", "i", "b">>)}}

\* What the collaborators can hold for one module: the override directive, the
\* modules mapping entry, the rules the index returns, and the answer of
\* isStdModule ("na" where Resolve does not get to ask)
ModuleEnvs(f) ==
    {e \in [override : {{}} \cup {{l} : l \in OverrideLabels},
            distribution : {{}} \cup {{d} : d \in Distributions},
            matches : {ms \in SUBSET IndexLabels(f) : Cardinality(ms) <= MaxMatches},
            isStd : {"std", "nonstd", "err", "na"}] :
        /\ (e.isStd # "na") <=> (e.override = {} /\ e.distribution = {} /\ e.matches = {})
        /\ (e.override # {} \/ e.distribution # {}) => e.matches \in ShadowedMatches(f)}

NoModule == [mod |-> 0, override |-> {}, distribution |-> {}, matches |-> {},
             isStd |-> "na", kind |-> "none", dep |-> {}]

\* A set that keeps the order of insertion instead of the comparator's
TreeSetAddUnordered(set, s) ==
    IF \E i \in 1..Len(set) : StringComparator(set[i], s) = 0 THEN set
    ELSE Append(set, s)

\* treeset.Set.Add on a set ordered by StringComparator
TreeSetAdd(set, s) ==
    IF \E i \in 1..Len(set) : StringComparator(set[i], s) = 0 THEN set
    ELSE LET k == Cardinality({i \in 1..Len(set) : StringComparator(set[i], s) < 0})
         IN SubSeq(set, 1, k) \o <<s>> \o SubSeq(set, k + 1, Len(set))

\* treeset.Set.Add for every value of an iterated set (lines 502-505)
RECURSIVE TreeSetAddAll(_, _)
TreeSetAddAll(set, values) ==
    IF values = {} THEN set
    ELSE LET v == CHOOSE x \in values : TRUE
         IN TreeSetAddAll(TreeSetAdd(set, v), values \ {v})

\* The override stage (lines 403-419): the labels it adds
OverrideDep(override, f) ==
    LET o1 == IF override.Repo = <<>> THEN [override EXCEPT !.Repo = f.Repo] ELSE override
    IN IF ~LabelEqual(o1, f)
       THEN LET o2 == IF o1.Repo = f.Repo THEN [o1 EXCEPT !.Repo = <<>>] ELSE o1
            IN {LabelString(o2)}
       ELSE {}

\* rulesPythonDistributionPackage
rulesPythonDistributionPackage(distribution) ==
    <<"p", "y", "p", "i", "_", "_">> \o ReplaceAll(ToLower(distribution), "-", "_")

\* The third-party stage (lines 421-424): the label it adds
ThirdPartyDep(distribution) ==
    LET distributionPackage == rulesPythonDistributionPackage(distribution)
    IN LabelString(LabelNew(PipRepository, distributionPackage, distributionPackage))

\* FindResult.IsSelfImport, for rules that embed nothing (Embeds returns none)
IsSelfImport(match, f) == LabelEqual(f, match.Label)

\* A narrowing that keeps every match
SameRootMatchesAll(filteredMatches, root) == filteredMatches

\* Lines 467-472: the matches whose package has the project root as prefix
SameRootMatches(filteredMatches, root) ==
    {match \in filteredMatches : HasPrefix(match.Label.Pkg, root)}

\* An index stage in which an ambiguous import is fatal only under strict validation
IndexStageAmbiguousIfStrict(matches, isStd, strict, root, f) ==
    IF matches = {} /\ isStd = "err"
    THEN [kind |-> "stderr", dep |-> {}, fatal |-> TRUE]
    ELSE IF matches = {} /\ isStd = "std"
    THEN [kind |-> "std", dep |-> {}, fatal |-> FALSE]
    ELSE IF matches = {} /\ strict
    THEN [kind |-> "invalid", dep |-> {}, fatal |-> TRUE]
    ELSE IF \E match \in matches : IsSelfImport(match, f)
    THEN [kind |-> "self", dep |-> {}, fatal |-> FALSE]
    ELSE IF matches = {}
    THEN [kind |-> "unresolved", dep |-> {}, fatal |-> FALSE]
    ELSE LET sameRootMatches == SameRootMatches(matches, root)
             ambiguous == Cardinality(matches) > 1 /\ Cardinality(sameRootMatches) # 1
             filteredMatches == IF Cardinality(matches) > 1 THEN sameRootMatches ELSE matches
         IN IF ambiguous
            THEN [kind |-> "ambiguous", dep |-> {}, fatal |-> strict]
            ELSE [kind |-> "index", fatal |-> FALSE,
                  dep |-> {LabelString(LabelRel(match.Label, f.Repo, f.Pkg)) :
                              match \in filteredMatches}]

\* The first-party index stage (lines 432-493) for the matches the index returned:
\* what it did (kind), the label it added (dep) and whether it was fatal
IndexStage(matches, isStd, strict, root, f) ==
    IF matches = {} /\ isStd = "err"
    THEN [kind |-> "stderr", dep |-> {}, fatal |-> TRUE]
    ELSE IF matches = {} /\ isStd = "std"
    THEN [kind |-> "std", dep |-> {}, fatal |-> FALSE]
    ELSE IF matches = {} /\ strict
    THEN [kind |-> "invalid", dep |-> {}, fatal |-> TRUE]
    ELSE IF \E match \in matches : IsSelfImport(match, f)
    THEN [kind |-> "self", dep |-> {}, fatal |-> FALSE]
    ELSE IF matches = {}
    THEN [kind |-> "unresolved", dep |-> {}, fatal |-> FALSE]
    ELSE LET sameRootMatches == SameRootMatches(matches, root)
             ambiguous == Cardinality(matches) > 1 /\ Cardinality(sameRootMatches) # 1
             filteredMatches == IF Cardinality(matches) > 1 THEN sameRootMatches ELSE matches
         IN IF ambiguous
            THEN [kind |-> "ambiguous", dep |-> {}, fatal |-> TRUE]
            ELSE [kind |-> "index", fatal |-> FALSE,
                  dep |-> {LabelString(LabelRel(match.Label, f.Repo, f.Pkg)) :
                              match \in filteredMatches}]

\* ix.FindRulesByImportWithConfig: the FindResults of the rules the index holds
FindResults(labels) == {[Label |-> l] : l \in labels}

\* An iteration that consults the modules mapping before the override directives
ResolveModuleMappingFirst(e, strict, root, f) ==
    IF e.distribution # {}
    THEN [kind |-> "thirdparty", fatal |-> FALSE,
          dep |-> {ThirdPartyDep(CHOOSE d \in e.distribution : TRUE)}]
    ELSE IF e.override # {}
    THEN LET dep == OverrideDep(CHOOSE o \in e.override : TRUE, f)
         IN [kind |-> IF dep = {} THEN "override-self" ELSE "override",
             dep |-> dep, fatal |-> FALSE]
    ELSE IndexStage(FindResults(e.matches), e.isStd, strict, root, f)

\* One iteration of MODULE_LOOP (lines 401-494) for a module with environment e
ResolveModule(e, strict, root, f) ==
    IF e.override # {}
    THEN LET dep == OverrideDep(CHOOSE o \in e.override : TRUE, f)
         IN [kind |-> IF dep = {} THEN "override-self" ELSE "override",
             dep |-> dep, fatal |-> FALSE]
    ELSE IF e.distribution # {}
    THEN [kind |-> "thirdparty", fatal |-> FALSE,
          dep |-> {ThirdPartyDep(CHOOSE d \in e.distribution : TRUE)}]
    ELSE IndexStage(FindResults(e.matches), e.isStd, strict, root, f)

\* The state in which nothing of Resolve has run
ResolveIdle ==
    /\ from = FromLabel
    /\ modulesRaw = NilModules
    /\ validate = FALSE
    /\ pythonProjectRoot = <<>>
    /\ resolvedDeps = {}
    /\ deps = <<>>
    /\ hasFatalError = FALSE
    /\ it = {}
    /\ cur = NoModule
    /\ resolved = {}
    /\ errlog = {}
    /\ depsAttr = {}
    /\ exitStatus = 0

TreeIdle ==
    /\ fsBuild = {}
    /\ tree = <<>>
    /\ inserted = {}
    /\ lastAdd = <<>>

EvalIdle ==
    /\ srcsExpr = <<>>
    /\ srcsResult = <<>>

ImportsIdle ==
    /\ impIn = <<>>
    /\ provides = <<>>

\* Resolve is called for a rule without deps attribute, with every configuration,
\* module-import set and pre-resolved set of the bounds
Init ==
    /\ pc = "call"
    /\ from = FromLabel
    /\ modulesRaw \in {NilModules} \cup {{1..n} : n \in 0..MaxModules}
    /\ validate \in BOOLEAN
    /\ pythonProjectRoot \in ProjectRoots
    /\ resolvedDeps \in SUBSET ResolvedDepsUniverse
    /\ deps = <<>>
    /\ hasFatalError = FALSE
    /\ it = {}
    /\ cur = NoModule
    /\ resolved = {}
    /\ errlog = {}
    /\ depsAttr = {}
    /\ exitStatus = 0
    /\ TreeIdle /\ EvalIdle /\ ImportsIdle

\* Lines 388-398: the empty treeset, and the iterator when modulesRaw is not nil
ResolveBegin ==
    /\ pc = "call"
    /\ deps' = <<>>
    /\ IF modulesRaw # NilModules
       THEN /\ it' = CHOOSE modules \in modulesRaw : TRUE
            /\ hasFatalError' = FALSE
            /\ pc' = "loop"
       ELSE /\ pc' = "merge"
            /\ UNCHANGED <<it, hasFatalError>>
    /\ UNCHANGED <<from, modulesRaw, validate, pythonProjectRoot, resolvedDeps,
                   cur, resolved, errlog, depsAttr, exitStatus>>
    /\ UNCHANGED <<treeVars, evalVars, importsVars>>

\* A module loop that exits at the first fatal module
ModuleLoopFailFast ==
    /\ pc = "loop"
    /\ it # {}
    /\ \E e \in ModuleEnvs(from) :
          LET mod == MinOf(it)
              r == ResolveModule(e, validate, pythonProjectRoot, from)
          IN /\ it' = it \ {mod}
             /\ deps' = IF r.dep = {} THEN deps
                        ELSE TreeSetAdd(deps, CHOOSE d \in r.dep : TRUE)
             /\ hasFatalError' = (hasFatalError \/ r.fatal)
             /\ errlog' = IF r.fatal THEN errlog \cup {<<mod, r.kind>>} ELSE errlog
             /\ cur' = [mod |-> mod, override |-> e.override,
                        distribution |-> e.distribution, matches |-> e.matches,
                        isStd |-> e.isStd, kind |-> r.kind, dep |-> r.dep]
             /\ resolved' = resolved \cup r.dep
             /\ pc' = IF r.fatal THEN "exited" ELSE pc
             /\ exitStatus' = IF r.fatal THEN 1 ELSE exitStatus
    /\ UNCHANGED <<from, modulesRaw, validate, pythonProjectRoot, resolvedDeps, depsAttr>>
    /\ UNCHANGED <<treeVars, evalVars, importsVars>>

\* Lines 400-495: one iteration of MODULE_LOOP. The modules are numbered in the
\* order of the iterator, and what the collaborators hold for the module is an
\* input of the iteration.
ModuleLoop ==
    /\ pc = "loop"
    /\ it # {}
    /\ \E e \in ModuleEnvs(from) :
          LET mod == MinOf(it)
              r == ResolveModule(e, validate, pythonProjectRoot, from)
          IN /\ it' = it \ {mod}
             /\ deps' = IF r.dep = {} THEN deps
                        ELSE TreeSetAdd(deps, CHOOSE d \in r.dep : TRUE)
             /\ hasFatalError' = (hasFatalError \/ r.fatal)
             /\ errlog' = IF r.fatal THEN errlog \cup {<<mod, r.kind>>} ELSE errlog
             /\ cur' = [mod |-> mod, override |-> e.override,
                        distribution |-> e.distribution, matches |-> e.matches,
                        isStd |-> e.isStd, kind |-> r.kind, dep |-> r.dep]
             /\ resolved' = resolved \cup r.dep
    /\ UNCHANGED <<pc, from, modulesRaw, validate, pythonProjectRoot, resolvedDeps,
                   depsAttr, exitStatus>>
    /\ UNCHANGED <<treeVars, evalVars, importsVars>>

\* Lines 496-499: the iterator is exhausted; os.Exit(1) if a module was fatal
LoopEnd ==
    /\ pc = "loop"
    /\ it = {}
    /\ IF hasFatalError
       THEN /\ exitStatus' = 1
            /\ pc' = "exited"
       ELSE /\ pc' = "merge"
            /\ UNCHANGED exitStatus
    /\ UNCHANGED <<from, modulesRaw, validate, pythonProjectRoot, resolvedDeps, deps,
                   hasFatalError, it, cur, resolved, errlog, depsAttr>>
    /\ UNCHANGED <<treeVars, evalVars, importsVars>>

\* convertDependencySetToExpr: the list of the set's values in the set's order
convertDependencySetToExpr(set) == [i \in 1..Len(set) |-> set[i]]

\* Lines 500-510: the pre-resolved set is added, the attribute written, and
\* Resolve returns
WriteDeps ==
    /\ pc = "merge"
    /\ deps' = TreeSetAddAll(deps, resolvedDeps)
    /\ depsAttr' = IF deps' # <<>> THEN {convertDependencySetToExpr(deps')} ELSE depsAttr
    /\ pc' = "returned"
    /\ UNCHANGED <<from, modulesRaw, validate, pythonProjectRoot, resolvedDeps,
                   hasFatalError, it, cur, resolved, errlog, exitStatus>>
    /\ UNCHANGED <<treeVars, evalVars, importsVars>>

Next == ResolveBegin \/ ModuleLoop \/ LoopEnd \/ WriteDeps

Spec == Init /\ [][Next]_vars

(***************************************************************************)
(* Paths (Go path and path/filepath, for relative slash-separated paths)   *)
(***************************************************************************)

\* strings.Split(s, "/")
RECURSIVE SplitPath(_)
SplitPath(s) ==
    IF SlashPositions(s) = {} THEN <<s>>
    ELSE LET k == MinOf(SlashPositions(s))
         IN <<SubSeq(s, 1, k - 1)>> \o SplitPath(SubSeq(s, k + 1, Len(s)))

\* strings.Join(segments, "/")
RECURSIVE JoinSegments(_)
JoinSegments(segments) ==
    IF segments = <<>> THEN <<>>
    ELSE IF Len(segments) = 1 THEN segments[1]
    ELSE segments[1] \o <<"/">> \o JoinSegments(Tail(segments))

\* The segments of a cleaned relative path: empty and "." segments are dropped,
\* and ".." removes the segment before it unless there is none or it is ".."
RECURSIVE CleanSegments(_, _)
CleanSegments(done, todo) ==
    IF todo = <<>> THEN done
    ELSE LET seg == Head(todo)
         IN IF seg = <<>> \/ seg = <<".">> THEN CleanSegments(done, Tail(todo))
            ELSE IF seg = <<".", ".">> /\ done # <<>> /\ done[Len(done)] # <<".", ".">>
            THEN CleanSegments(SubSeq(done, 1, Len(done) - 1), Tail(todo))
            ELSE CleanSegments(Append(done, seg), Tail(todo))

\* path.Clean / filepath.Clean of a relative path
PathClean(p) ==
    LET segments == CleanSegments(<<>>, SplitPath(p))
    IN IF segments = <<>> THEN <<".">> ELSE JoinSegments(segments)

\* path.Join / filepath.Join of two elements: empty elements are ignored, the
\* result is cleaned, and the join of no non-empty element is ""
PathJoin(a, b) ==
    IF a = <<>> /\ b = <<>> THEN <<>>
    ELSE IF a = <<>> THEN PathClean(b)
    ELSE IF b = <<>> THEN PathClean(a)
    ELSE PathClean(a \o <<"/">> \o b)

\* path.Join(parts...)
RECURSIVE PathJoinAll(_)
PathJoinAll(parts) ==
    IF parts = <<>> THEN <<>>
    ELSE PathJoin(Head(parts), PathJoinAll(Tail(parts)))

(***************************************************************************)
(* BazelPackageTree                                                        *)
(***************************************************************************)

\* The package of the tree (*pt.pkg)
TreePkg == <<"p">>

\* The directories below the package: a and a/b
FsDirs == {<<"a">>, <<"a", "/", "b">>}

\* The files below the package: f, a/f, a/g and a/b/f
FsFiles == {<<"f">>, <<"a", "/", "f">>, <<"a", "/", "g">>, <<"a", "/", "b", "/", "f">>}

\* isBazelPackage: a build file exists in the directory
isBazelPackage(dir, buildDirs) == dir \in buildDirs

\* The keys of the nodes on the way of parts: its non-empty prefixes
PrefixesOf(parts) == {SubSeq(parts, 1, i) : i \in 1..Len(parts)}

\* Lines 291-303: the node AddPath creates for the prefix key of parts
NewBranch(key, parts, buildDirs) ==
    LET isFile == (Len(key) = Len(parts))
        dir == PathJoin(TreePkg, PathJoinAll(key))
    IN [isBazelPackage |-> IF ~isFile THEN isBazelPackage(dir, buildDirs) ELSE FALSE,
        isFile |-> isFile]

\* An AddPath that replaces the branch it finds, with what hangs below it
AddPathReplacing(t, parts, buildDirs) ==
    LET kept == {k \in DOMAIN t : \A q \in PrefixesOf(parts) :
                    ~(Len(q) <= Len(k) /\ SubSeq(k, 1, Len(q)) = q)}
    IN [k \in kept \cup PrefixesOf(parts) |->
           IF k \in kept THEN t[k] ELSE NewBranch(k, parts, buildDirs)]

\* BazelPackageTree.AddPath: the tree is the function from the key of a node (the
\* parts that lead to it from the root) to its flags; a node that exists is kept
AddPath(t, parts, buildDirs) ==
    [k \in DOMAIN t \cup PrefixesOf(parts) |->
        IF k \in DOMAIN t THEN t[k] ELSE NewBranch(k, parts, buildDirs)]

\* The keys of pt.branches of the node with key key
Branches(t, key) ==
    {k \in DOMAIN t : Len(k) = Len(key) + 1 /\ SubSeq(k, 1, Len(key)) = key}

\* The bag with one copy of every element of S
BagOfSet(S) == [x \in S |-> 1]

\* The bag of path.Join(part, q) for the paths q of bag
JoinedBag(part, bag) ==
    [x \in {PathJoin(part, q) : q \in DOMAIN bag} |->
        bag[CHOOSE q \in DOMAIN bag : PathJoin(part, q) = x]]

\* BazelPackageTree.Paths (lines 311-325). The code ranges over the map of
\* branches in an order Go leaves open: the list is modelled as the bag of its
\* entries. PathsOfBranches is the loop over the branches with the keys in keys,
\* BranchPaths what one iteration appends for the branch with key k.
RECURSIVE PathsOfBranches(_, _)
RECURSIVE BranchPaths(_, _)
BranchPaths(t, k) ==
    LET part == k[Len(k)]
    IN IF t[k].isBazelPackage THEN EmptyBag
       ELSE (IF t[k].isFile THEN BagOfSet({part}) ELSE EmptyBag)
            (+) JoinedBag(part, PathsOfBranches(t, Branches(t, k)))

PathsOfBranches(t, keys) ==
    IF keys = {} THEN EmptyBag
    ELSE LET k == CHOOSE y \in keys : TRUE
         IN BranchPaths(t, k) (+) PathsOfBranches(t, keys \ {k})

\* pt.Paths() of the root
Paths(t) == PathsOfBranches(t, Branches(t, <<>>))

\* NewBazelPackageTree: no branches
NewBazelPackageTree == <<>>

\* A package tree is built for a package whose sub-directories hold build files
\* or not
InitTree ==
    /\ pc = "tree"
    /\ fsBuild \in SUBSET {PathJoin(TreePkg, d) : d \in FsDirs}
    /\ tree = NewBazelPackageTree
    /\ inserted = {}
    /\ lastAdd = [parts |-> <<>>, present |-> FALSE, before |-> NewBazelPackageTree]
    /\ ResolveIdle /\ EvalIdle /\ ImportsIdle

\* rootBazelPackageTree.AddPath(parts) for a file or directory a glob pattern
\* matched (lines 238-243)
AddPathCall ==
    /\ pc = "tree"
    /\ \E src \in FsFiles \cup FsDirs :
          LET parts == SplitPath(src)
          IN /\ tree' = AddPath(tree, parts, fsBuild)
             /\ inserted' = inserted \cup {src}
             /\ lastAdd' = [parts |-> parts, present |-> src \in inserted, before |-> tree]
    /\ UNCHANGED <<pc, fsBuild>>
    /\ UNCHANGED <<resolveVars, evalVars, importsVars>>

NextTree == AddPathCall

SpecTree == InitTree /\ [][NextTree]_vars

(***************************************************************************)
(* Globber.Glob and evalSrcsExpr                                           *)
(***************************************************************************)

\* The largest number of keyword arguments of a glob call
MaxKwargs == 2

\* Starlark values: lists (of strings and of other values), strings, ints, bools
\* and None
VList(items) == [type |-> "list", items |-> items, int |-> 0, bool |-> FALSE]
VString == [type |-> "string", items |-> <<>>, int |-> 0, bool |-> FALSE]
VInt(n) == [type |-> "int", items |-> <<>>, int |-> n, bool |-> FALSE]
VBool(b) == [type |-> "bool", items |-> <<>>, int |-> 0, bool |-> b]
VNone == [type |-> "none", items |-> <<>>, int |-> 0, bool |-> FALSE]

\* The items of a list: a string, or a value that is no string
SItem(str) == [isString |-> TRUE, str |-> str]
OtherItem == [isString |-> FALSE, str |-> <<>>]

\* The lists given as include and exclude: ["*"], ["*", "a/*"], ["a/f"],
\* ["x/*"], ["["], ["*", 1] and []
PatternLists ==
    {VList(<<SItem(<<"*">>)>>),
     VList(<<SItem(<<"*">>), SItem(<<"a", "/", "*">>)>>),
     VList(<<SItem(<<"a", "/", "f">>)>>),
     VList(<<SItem(<<"x", "/", "*">>)>>),
     VList(<<SItem(<<"[">>)>>),
     VList(<<SItem(<<"*">>), OtherItem>>),
     VList(<<>>)}

\* The values given for each keyword of a glob call
KwargValues(key) ==
    IF key \in {"include", "exclude"} THEN PatternLists \cup {VString, VNone}
    ELSE IF key = "exclude_directories"
    THEN {VInt(0), VInt(1), VInt(2), VBool(TRUE), VString}
    ELSE IF key = "allow_empty" THEN {VBool(TRUE), VBool(FALSE), VInt(1), VNone}
    ELSE {VInt(0)}

KwargKeys == {"include", "exclude", "exclude_directories", "allow_empty", "other"}

\* The keyword arguments of a call: at most MaxKwargs, no keyword twice
KwargLists ==
    {kw \in UNION {[1..n -> {<<k, v>> : k \in KwargKeys,
                                 v \in UNION {KwargValues(x) : x \in KwargKeys}}] :
                      n \in 0..MaxKwargs} :
        /\ \A j \in 1..Len(kw) : kw[j][2] \in KwargValues(kw[j][1])
        /\ \A j, l \in 1..Len(kw) : kw[j][1] = kw[l][1] => j = l}

\* The positional arguments of a call: none, one value, or two
ArgLists ==
    {<<>>} \cup {<<v>> : v \in PatternLists \cup {VString}}
           \cup {<<VList(<<SItem(<<"*">>)>>), VList(<<>>)>>}

\* filepathx.Glob(path.Join(absPkg, pattern)) with the matches made relative to
\* absPkg (lines 209-216 and 233-239), on the files and directories of the
\* package: the matches in the order Glob returns them, or an error for a
\* malformed pattern
GlobMatches(pattern) ==
    IF pattern = <<"*">>
    THEN [err |-> FALSE, matches |-> << <<"a">>, <<"f">> >>]
    ELSE IF pattern = <<"a", "/", "*">>
    THEN [err |-> FALSE,
          matches |-> << <<"a", "/", "b">>, <<"a", "/", "f">>, <<"a", "/", "g">> >>]
    ELSE IF pattern = <<"a", "/", "f">>
    THEN [err |-> FALSE, matches |-> << <<"a", "/", "f">> >>]
    ELSE IF pattern = <<"[">>
    THEN [err |-> TRUE, matches |-> <<>>]
    ELSE [err |-> FALSE, matches |-> <<>>]

\* Lines 163-194: the loop over the keyword arguments. st holds includeArg and
\* excludeArg (<<>> for nil, else <<value>>), allowEmpty and whether the loop
\* has returned an error
RECURSIVE KwargsLoop(_, _)
KwargsLoop(st, kwargs) ==
    IF kwargs = <<>> \/ st.err THEN st
    ELSE LET key == Head(kwargs)[1]
             val == Head(kwargs)[2]
             next ==
                 IF key = "include"
                 THEN IF st.include # <<>> THEN [st EXCEPT !.err = TRUE]
                      ELSE [st EXCEPT !.include = <<val>>]
                 ELSE IF key = "exclude"
                 THEN [st EXCEPT !.exclude = <<val>>]
                 ELSE IF key = "exclude_directories"
                 THEN IF val.type # "int" \/ (val.int # 0 /\ val.int # 1)
                      THEN [st EXCEPT !.err = TRUE]
                      ELSE st
                 ELSE IF key = "allow_empty"
                 THEN IF val.type # "bool" THEN [st EXCEPT !.err = TRUE]
                      ELSE [st EXCEPT !.allowEmpty = val.bool]
                 ELSE [st EXCEPT !.err = TRUE]
         IN KwargsLoop(next, Tail(kwargs))

\* Lines 202-218: the loop over the exclude patterns
RECURSIVE ExcludeLoop(_, _)
ExcludeLoop(acc, items) ==
    IF items = <<>> \/ acc.err THEN acc
    ELSE IF ~Head(items).isString THEN [acc EXCEPT !.err = TRUE]
    ELSE LET g == GlobMatches(Head(items).str)
         IN IF g.err THEN [acc EXCEPT !.err = TRUE]
            ELSE ExcludeLoop([acc EXCEPT !.set = acc.set \cup Range(g.matches)],
                             Tail(items))

\* Lines 196-219: the exclude set
ExcludeSet(excludeArg) ==
    IF excludeArg = <<>> THEN [err |-> FALSE, set |-> {}]
    ELSE IF excludeArg[1].type # "list" THEN [err |-> TRUE, set |-> {}]
    ELSE ExcludeLoop([err |-> FALSE, set |-> {}], excludeArg[1].items)

\* Lines 238-244: the matches of one include pattern that are not excluded are
\* added to the tree, in their order
RECURSIVE AddMatches(_, _, _, _)
AddMatches(t, matches, excludeSet, buildDirs) ==
    IF matches = <<>> THEN t
    ELSE AddMatches(IF Head(matches) \in excludeSet THEN t
                    ELSE AddPath(t, SplitPath(Head(matches)), buildDirs),
                    Tail(matches), excludeSet, buildDirs)

\* Lines 226-245: the loop over the include patterns
RECURSIVE IncludeLoop(_, _, _, _)
IncludeLoop(acc, items, excludeSet, buildDirs) ==
    IF items = <<>> \/ acc.err THEN acc
    ELSE IF ~Head(items).isString THEN [acc EXCEPT !.err = TRUE]
    ELSE LET g == GlobMatches(Head(items).str)
         IN IF g.err THEN [acc EXCEPT !.err = TRUE]
            ELSE IncludeLoop(
                     [acc EXCEPT !.tree = AddMatches(acc.tree, g.matches, excludeSet, buildDirs)],
                     Tail(items), excludeSet, buildDirs)

\* Lines 221-245: the package tree of the included matches
IncludeTree(includeArg, excludeSet, buildDirs) ==
    IF includeArg = <<>> \/ includeArg[1].type # "list"
    THEN [err |-> TRUE, tree |-> NewBazelPackageTree]
    ELSE IncludeLoop([err |-> FALSE, tree |-> NewBazelPackageTree],
                     includeArg[1].items, excludeSet, buildDirs)

GlobError == [err |-> TRUE, result |-> EmptyBag]

\* Globber.Glob: an error, or the bag of the paths of the list it returns
Glob(args, kwargs, buildDirs) ==
    IF Len(args) > 1 THEN GlobError
    ELSE LET st == KwargsLoop([include |-> args, exclude |-> <<>>,
                               allowEmpty |-> TRUE, err |-> FALSE], kwargs)
             ex == ExcludeSet(st.exclude)
             inc == IncludeTree(st.include, ex.set, buildDirs)
             result == Paths(inc.tree)
         IN IF st.err \/ ex.err \/ inc.err THEN GlobError
            ELSE IF ~st.allowEmpty /\ result = EmptyBag THEN GlobError
            ELSE [err |-> FALSE, result |-> result]

\* The lists that hold the entries of a bag, in any order
Orderings(bag) ==
    LET n == BagCardinality(bag)
    IN {list \in [1..n -> BagToSet(bag)] :
           \A x \in BagToSet(bag) : Cardinality({j \in 1..n : list[j] = x}) = bag[x]}

\* The strings of a list of items, in their order (lines 103-107)
RECURSIVE StringItems(_)
StringItems(items) ==
    IF items = <<>> THEN <<>>
    ELSE IF Head(items).isString THEN <<Head(items).str>> \o StringItems(Tail(items))
    ELSE StringItems(Tail(items))

\* The srcs expressions: a list literal (of strings and other expressions), a
\* call of glob, and a reference to a name; parses tells whether the starlark
\* parser accepts the formatted expression
ListExpr(items) == [form |-> "list", parses |-> TRUE, items |-> items,
                    args |-> <<>>, kwargs |-> <<>>]
GlobExpr(args, kwargs, parses) == [form |-> "glob", parses |-> parses, items |-> <<>>,
                                   args |-> args, kwargs |-> kwargs]
NameExpr(parses) == [form |-> "name", parses |-> parses, items |-> <<>>,
                     args |-> <<>>, kwargs |-> <<>>]

\* starlark.EvalExpr in the environment that binds glob alone (lines 116-121):
\* a reference to another name fails, a call of glob gives what Glob gives
EvalExpr(expr, buildDirs) ==
    IF expr.form = "name" THEN GlobError
    ELSE Glob(expr.args, expr.kwargs, buildDirs)

\* An evalSrcsExpr that returns the evaluation error to its caller
evalSrcsExprPropagating(expr, buildDirs) ==
    IF expr.form = "list"
    THEN {[srcs |-> StringItems(expr.items), isNil |-> FALSE, err |-> FALSE]}
    ELSE IF ~expr.parses
    THEN {[srcs |-> <<>>, isNil |-> TRUE, err |-> TRUE]}
    ELSE LET srcsVal == EvalExpr(expr, buildDirs)
         IN IF srcsVal.err
            THEN {[srcs |-> <<>>, isNil |-> TRUE, err |-> TRUE]}
            ELSE {[srcs |-> list, isNil |-> FALSE, err |-> FALSE] :
                     list \in Orderings(srcsVal.result)}

\* evalSrcsExpr: what it can return, the list (srcs, or nil) and whether the
\* error is set. The list of a glob is in the order of Paths(), any order.
evalSrcsExpr(expr, buildDirs) ==
    IF expr.form = "list"
    THEN {[srcs |-> StringItems(expr.items), isNil |-> FALSE, err |-> FALSE]}
    ELSE IF ~expr.parses
    THEN {[srcs |-> <<>>, isNil |-> TRUE, err |-> TRUE]}
    ELSE LET srcsVal == EvalExpr(expr, buildDirs)
         IN IF srcsVal.err
            THEN {[srcs |-> <<>>, isNil |-> FALSE, err |-> FALSE]}
            ELSE {[srcs |-> list, isNil |-> FALSE, err |-> FALSE] :
                     list \in Orderings(srcsVal.result)}

\* The expressions evalSrcsExpr is called with
SrcsExprs ==
    {ListExpr(<<>>), ListExpr(<<SItem(<<"f">>), OtherItem, SItem(<<"a", "/", "f">>)>>),
     NameExpr(TRUE), NameExpr(FALSE)}
    \cup {GlobExpr(args, kwargs, TRUE) : args \in ArgLists, kwargs \in KwargLists}
    \cup {GlobExpr(<<VList(<<SItem(<<"*">>)>>)>>, <<>>, FALSE)}

\* evalSrcsExpr is called for a srcs expression of a package in which the
\* directory a holds a build file or not
InitEval ==
    /\ pc = "eval"
    /\ srcsExpr \in SrcsExprs
    /\ srcsResult = <<>>
    /\ fsBuild \in {{}, {PathJoin(TreePkg, <<"a">>)}}
    /\ tree = <<>>
    /\ inserted = {}
    /\ lastAdd = <<>>
    /\ ResolveIdle /\ ImportsIdle

\* The call of evalSrcsExpr (line 60)
EvalSrcsCall ==
    /\ pc = "eval"
    /\ srcsResult' \in evalSrcsExpr(srcsExpr, fsBuild)
    /\ pc' = "evaluated"
    /\ UNCHANGED <<srcsExpr, fsBuild, tree, inserted, lastAdd>>
    /\ UNCHANGED <<resolveVars, importsVars>>

NextEval == EvalSrcsCall

SpecEval == InitEval /\ [][NextEval]_vars

(***************************************************************************)
(* importSpecFromSrc and Resolver.Imports                                  *)
(***************************************************************************)

\* The largest number of entries of a srcs list
MaxSrcs == 2

\* The entrypoint file name of a python package
pyLibraryEntrypointFilename == <<"_", "_", "i", "n", "i", "t", "_", "_", ".", "p", "y">>

\* filepath.Ext: the suffix of the last element from its last dot on
FileExt(p) ==
    LET lastSlash == IF SlashPositions(p) = {} THEN 0 ELSE MaxOf(SlashPositions(p))
        dots == {j \in (lastSlash + 1)..Len(p) : p[j] = "."}
    IN IF dots = {} THEN <<>> ELSE SubSeq(p, MaxOf(dots), Len(p))

\* filepath.Dir of a relative path: all but the last element, cleaned
FileDir(p) ==
    IF SlashPositions(p) = {} THEN <<".">>
    ELSE PathClean(SubSeq(p, 1, MaxOf(SlashPositions(p)) - 1))

\* strings.TrimSuffix
TrimSuffix(s, suffix) ==
    IF HasSuffix(s, suffix) THEN SubSeq(s, 1, Len(s) - Len(suffix)) ELSE s

\* The elements of a cleaned relative path as filepath.Rel walks them: "." as
\* base has none
RelElements(cleaned, isBase) ==
    IF cleaned = <<".">> /\ isBase THEN <<>> ELSE SplitPath(cleaned)

\* The number of leading elements base and targ share
SharedElements(base, targ) ==
    MaxOf({n \in 0..Len(base) : n <= Len(targ) /\ SubSeq(base, 1, n) = SubSeq(targ, 1, n)})

\* filepath.Rel from the elements left of base and of targ after those they
\* share: a ".." stands for each element left of the base, and it is an error
\* when the first element left of the base is ".."
RelOfLeft(baseLeft, targLeft) ==
    IF baseLeft # <<>> /\ baseLeft[1] = <<".", ".">>
    THEN [err |-> TRUE, rel |-> <<>>]
    ELSE [err |-> FALSE,
          rel |-> JoinSegments([j \in 1..Len(baseLeft) |-> <<".", ".">>] \o targLeft)]

\* filepath.Rel of the elements of two different cleaned paths
RelOfElements(base, targ, shared) ==
    RelOfLeft(SubSeq(base, shared + 1, Len(base)), SubSeq(targ, shared + 1, Len(targ)))

\* filepath.Rel of two cleaned relative paths: "." for equal paths
RelOfCleaned(base, targ) ==
    IF base = targ THEN [err |-> FALSE, rel |-> <<".">>]
    ELSE RelOfElements(RelElements(base, TRUE), RelElements(targ, FALSE),
                       SharedElements(RelElements(base, TRUE), RelElements(targ, FALSE)))

\* filepath.Rel of two relative paths
FileRel(basepath, targpath) == RelOfCleaned(PathClean(basepath), PathClean(targpath))

\* Lines 348-359 alone: the Imp without the case of the entrypoint file
importSpecForModuleOnly(pythonPkg, filename) ==
    IF pythonPkg = <<>> THEN TrimSuffix(filename, <<".", "p", "y">>)
    ELSE pythonPkg \o <<".">> \o TrimSuffix(filename, <<".", "p", "y">>)

\* Lines 341-359: the Imp for the python package of the file and its name
importSpecFor(pythonPkg, filename) ==
    IF filename = pyLibraryEntrypointFilename /\ pythonPkg # <<>> THEN pythonPkg
    ELSE IF pythonPkg = <<>> THEN TrimSuffix(filename, <<".", "p", "y">>)
    ELSE pythonPkg \o <<".">> \o TrimSuffix(filename, <<".", "p", "y">>)

\* Lines 332-359: the panic when filepath.Rel failed, else the Imp for the
\* relative directory with "." for "/", and "" for the directory "."
importSpecFromRel(rel, filename) ==
    IF rel.err THEN [panic |-> TRUE, imp |-> <<>>]
    ELSE [panic |-> FALSE,
          imp |-> importSpecFor(
                      ReplaceAll(IF rel.rel = <<".">> THEN <<>> ELSE rel.rel, "/", "."),
                      filename)]

\* importSpecFromSrc: the Imp of the ImportSpec it returns, or its panic when
\* filepath.Rel fails
importSpecFromSrc(projectRoot, bzlPkg, src) ==
    importSpecFromRel(FileRel(projectRoot, PathJoin(bzlPkg, FileDir(src))), PathBase(src))

\* The ImportSpec of src for one entry of the imports attribute (lines 72-74)
ProvideOf(pkg, imp, src) == importSpecFromSrc(PathClean(PathJoin(pkg, imp)), pkg, src)

\* One pass of the loop over the imports attribute
ImportsStep(acc, provide) ==
    IF provide.panic THEN [acc EXCEPT !.panic = TRUE]
    ELSE [acc EXCEPT !.list = Append(acc.list, provide.imp)]

\* Lines 71-75: the loop over the imports attribute, for one src
RECURSIVE ImportsLoop(_, _, _, _)
ImportsLoop(acc, imports, pkg, src) ==
    IF imports = <<>> \/ acc.panic THEN acc
    ELSE ImportsLoop(ImportsStep(acc, ProvideOf(pkg, Head(imports), src)),
                     Tail(imports), pkg, src)

\* Lines 68-78: the loop over srcs
RECURSIVE SrcsLoop(_, _, _, _)
SrcsLoop(acc, srcs, imports, pkg) ==
    IF srcs = <<>> \/ acc.panic THEN acc
    ELSE SrcsLoop(IF FileExt(Head(srcs)) = <<".", "p", "y">>
                  THEN ImportsLoop(acc, imports, pkg, Head(srcs))
                  ELSE acc,
                  Tail(srcs), imports, pkg)

\* Resolver.Imports for one result of evalSrcsExpr: nil, the list of the Imp of
\* the ImportSpecs, the exit of log.Fatalf, or the panic of importSpecFromSrc
ImportsFor(in, evaluated) ==
    LET imports == IF Len(in.imports) = 0 THEN << <<>> >> ELSE in.imports
        looped == SrcsLoop([panic |-> FALSE, list |-> <<>>], evaluated.srcs, imports, in.pkg)
        all == IF in.uuid # <<>> THEN Append(looped.list, in.uuid[1]) ELSE looped.list
    IN IF evaluated.err THEN [outcome |-> "fatal", list |-> <<>>]
       ELSE IF looped.panic THEN [outcome |-> "panic", list |-> <<>>]
       ELSE IF all = <<>> THEN [outcome |-> "nil", list |-> <<>>]
       ELSE [outcome |-> "list", list |-> all]

\* Resolver.Imports: what it can return. in.srcsAttr is <<>> for a rule without
\* srcs, else <<the srcs expression>>
Imports(in, buildDirs) ==
    IF in.srcsAttr = <<>> THEN {[outcome |-> "nil", list |-> <<>>]}
    ELSE {ImportsFor(in, evaluated) : evaluated \in evalSrcsExpr(in.srcsAttr[1], buildDirs)}

\* The source files of the rules
SrcFiles ==
    {<<"m", ".", "p", "y">>,
     <<"s", "/", "m", ".", "p", "y">>,
     pyLibraryEntrypointFilename,
     <<"s", "/">> \o pyLibraryEntrypointFilename,
     <<"m", ".", "t", "x", "t">>}

\* The srcs attributes of the rules: none, a list of at most MaxSrcs files, and
\* an expression the starlark parser rejects
SrcsAttrs ==
    {<<>>, <<NameExpr(FALSE)>>}
    \cup {<<ListExpr([j \in 1..Len(files) |-> SItem(files[j])])>> :
             files \in UNION {[1..n -> SrcFiles] : n \in 0..MaxSrcs}}

\* The packages of the rules with their imports attributes. The project roots
\* they name are the package, the directory above it, a directory below it (also
\* below the repository root), and directories outside the repository
PkgImports ==
    {<< <<>>, <<>> >>,
     << <<>>, << <<>> >> >>,
     << <<>>, << <<"s">> >> >>,
     << <<>>, << <<".", ".">> >> >>,
     << <<>>, << <<>>, <<".", ".">> >> >>,
     << <<"a">>, <<>> >>,
     << <<"a">>, << <<".", ".">> >> >>,
     << <<"a">>, << <<>>, <<".", ".">> >> >>,
     << <<"a">>, << <<"s">> >> >>,
     << <<"a">>, << <<".", ".", "/", ".", ".">> >> >>,
     << <<"a", "/", "b">>, << <<".", ".">> >> >>,
     << <<"a", "/", "b">>, << <<".", ".", "/", ".", ".">>, <<".">> >> >>}

\* The rules Imports is called for: the package, the imports attribute, the
\* srcs attribute and the uuid of a library (<<>> for none)
ImportsInputs ==
    {[pkg |-> pi[1], imports |-> pi[2], srcsAttr |-> srcsAttr, uuid |-> uuid] :
        pi \in PkgImports, srcsAttr \in SrcsAttrs, uuid \in {<<>>, << <<"u">> >>}}

\* Imports is called for a rule of a package
InitImports ==
    /\ pc = "imports"
    /\ impIn \in ImportsInputs
    /\ provides = <<>>
    /\ ResolveIdle /\ TreeIdle /\ EvalIdle

\* The call of Imports
ImportsCall ==
    /\ pc = "imports"
    /\ provides' \in Imports(impIn, fsBuild)
    /\ pc' = "imported"
    /\ UNCHANGED impIn
    /\ UNCHANGED <<resolveVars, treeVars, evalVars>>

NextImports == ImportsCall

SpecImports == InitImports /\ [][NextImports]_vars

(***************************************************************************)
(* Properties of Resolver.Resolve                                          *)
(***************************************************************************)

\* a is before b in byte-wise lexicographic order
LexLess(a, b) ==
    \E k \in 0..Len(a) :
        /\ k <= Len(b)
        /\ \A i \in 1..k : a[i] = b[i]
        /\ \/ k = Len(a) /\ k < Len(b)
           \/ k < Len(a) /\ k < Len(b) /\ Code(a[k + 1]) < Code(b[k + 1])

\* The target a label string of the deps attribute of rule f denotes
Denotes(str, f) ==
    IF str[1] = ":"
    THEN [Repo |-> f.Repo, Pkg |-> f.Pkg, Name |-> Tail(str)]
    ELSE LET slashes == MinOf({i \in 1..(Len(str) - 1) : str[i] = "/" /\ str[i + 1] = "/"})
             rest == SubSeq(str, slashes + 2, Len(str))
             colons == {i \in 1..Len(rest) : rest[i] = ":"}
             pkg == IF colons = {} THEN rest ELSE SubSeq(rest, 1, MinOf(colons) - 1)
         IN [Repo |-> IF str[1] = "@" THEN SubSeq(str, 2, slashes - 1) ELSE f.Repo,
             Pkg |-> pkg,
             Name |-> IF colons = {} THEN PathBase(pkg)
                      ELSE SubSeq(rest, MinOf(colons) + 1, Len(rest))]

\* The target of rule f itself
OwnTarget(f) == [Repo |-> f.Repo, Pkg |-> f.Pkg, Name |-> f.Name]

\* The label string an override directive is to contribute, by directive: nothing
\* for //a:x (the rule itself), "//a:y" and "@o//a:x"
OverrideContribution(o) ==
    IF o = LabelNew(<<>>, <<"a">>, <<"x">>) THEN {}
    ELSE IF o = LabelNew(<<>>, <<"a">>, <<"y">>) THEN {<<"/", "/", "a", ":", "y">>}
    ELSE {<<"@", "o", "/", "/", "a", ":", "x">>}

\* The third-party label of distribution N-p: "@pip//pypi__n_p"
ThirdPartyLabelNp ==
    <<"@", "p", "i", "p", "/", "/", "p", "y", "p", "i", "_", "_", "n", "_", "p">>

\* C1: a module with an override directive contributes only the override's label
\* (nothing when the override is the rule's own label), whatever the modules
\* mapping and the index hold for it; a module without override but with a
\* mapping entry contributes only the synthesized third-party label, whatever the
\* index holds for it.
C1_FirstStageWins ==
    cur.mod # 0 =>
        /\ cur.override # {} =>
              cur.dep = OverrideContribution(CHOOSE o \in cur.override : TRUE)
        /\ (cur.override = {} /\ cur.distribution # {}) => cur.dep = {ThirdPartyLabelNp}
        /\ cur.dep \subseteq Range(deps)
        /\ pc = "loop" => Range(deps) = resolved

\* C1 witness: a module with an override, a mapping entry and index matches has
\* been processed and contributed the override's label alone
C1_Witness ==
    /\ cur.override = {LabelNew(<<>>, <<"a">>, <<"y">>)}
    /\ cur.distribution # {}
    /\ Cardinality(cur.matches) = 2
    /\ deps = <<(<<"/", "/", "a", ":", "y">>)>>

\* C2: the deps attribute Resolve writes has no entry that denotes the resolving
\* rule's own label and no two entries that denote the same target.
C2_NoSelfNoDuplicateTarget ==
    \A attr \in depsAttr :
        /\ \A i \in 1..Len(attr) : Denotes(attr[i], from) # OwnTarget(from)
        /\ \A i, j \in 1..Len(attr) :
              Denotes(attr[i], from) = Denotes(attr[j], from) => i = j

\* The package path has the project root as prefix
PrefixedByRoot(pkg, root) == \E k \in 0..Len(pkg) : SubSeq(pkg, 1, k) = root

\* The label string a rule of the index is to contribute to //a:x
IndexContribution(l) ==
    IF l.Pkg = <<"a">> THEN <<":">> \o l.Name
    ELSE <<"/", "/">> \o l.Pkg \o <<":", "l", "i", "b">>

\* The index stage of the last iteration was left with more than one candidate
SeveralCandidates ==
    /\ cur.mod # 0
    /\ cur.override = {}
    /\ cur.distribution = {}
    /\ Cardinality(cur.matches) > 1
    /\ from \notin cur.matches

\* The candidates of the last iteration that have the project root as prefix
CandidatesUnderRoot == {l \in cur.matches : PrefixedByRoot(l.Pkg, pythonProjectRoot)}

\* C3: when the index leaves more than one candidate for a module, a label is
\* added for it iff exactly one candidate's package lies under the project root,
\* and it is that candidate's label; otherwise no label is added and a fatal
\* ambiguity error is recorded.
C3_NarrowingByProjectRoot ==
    SeveralCandidates =>
        IF Cardinality(CandidatesUnderRoot) = 1
        THEN /\ cur.dep = {IndexContribution(l) : l \in CandidatesUnderRoot}
             /\ cur.dep \subseteq Range(deps)
             /\ \A e \in errlog : e[1] # cur.mod
        ELSE /\ cur.dep = {}
             /\ <<cur.mod, "ambiguous">> \in errlog
             /\ hasFatalError

\* C3 witness: of two candidates only //a/b:lib is under root a, and it was added
C3_Witness ==
    /\ SeveralCandidates
    /\ pythonProjectRoot = <<"a">>
    /\ Cardinality(CandidatesUnderRoot) = 1
    /\ cur.dep = {<<"/", "/", "a", "/", "b", ":", "l", "i", "b">>}
    /\ cur.dep \subseteq Range(deps)

\* What the collaborators hold for the last module is a fatal condition: nothing
\* resolves it and the standard-library check fails, or it is no standard module
\* and validation is strict; or several rules match it, none the rule itself, and
\* not exactly one of them is under the project root
UnresolvedModule == cur.override = {} /\ cur.distribution = {} /\ cur.matches = {}
StdCheckFails == UnresolvedModule /\ cur.isStd = "err"
InvalidModule == UnresolvedModule /\ cur.isStd = "nonstd"
AmbiguousModule == SeveralCandidates /\ Cardinality(CandidatesUnderRoot) # 1
FatalModule == StdCheckFails \/ (InvalidModule /\ validate) \/ AmbiguousModule

\* C4: a fatal module does not stop the loop: while modules remain the loop goes
\* on and only the loop can step, every fatal module has its own error recorded,
\* and the exit comes after the last module, with no deps attribute written and
\* no return to the caller.
C4_FatalErrorsAreBatched ==
    /\ (pc = "loop" /\ it # {}) => (ENABLED ModuleLoop /\ ~ENABLED LoopEnd)
    /\ (cur.mod # 0 /\ FatalModule) => (hasFatalError /\ \E e \in errlog : e[1] = cur.mod)
    /\ \A e \in errlog : e[1] \in 1..cur.mod
    /\ hasFatalError => (pc \in {"loop", "exited"} /\ depsAttr = {})
    /\ pc = "exited" => (it = {} /\ hasFatalError /\ exitStatus = 1)
    /\ (pc = "loop" /\ it = {} /\ hasFatalError) => ENABLED LoopEnd

\* C4 witness: the first module was fatal, the second was processed and has its
\* own error, and then the process exited
C4_Witness ==
    /\ pc = "exited"
    /\ cur.mod = 2
    /\ \E e1, e2 \in errlog : e1[1] = 1 /\ e2[1] = 2
    /\ depsAttr = {}

\* C5 as stated: the exit is non-zero exactly when, under strict validation, some
\* module was invalid or ambiguous.
C5_ExitOnlyUnderStrictValidation ==
    pc \in {"exited", "returned"} =>
        ((exitStatus # 0) <=>
            (validate /\ \E e \in errlog : e[2] \in {"invalid", "ambiguous"}))

\* C5 amended: the exit is non-zero exactly when some module was fatal, and a
\* module is fatal exactly when it is unresolved and the standard-library check
\* fails, unresolved, no standard module and validation is strict, or ambiguous
\* (with or without strict validation); otherwise Resolve returns and the status
\* is zero.
C5_ExitIffFatalModule ==
    /\ cur.mod # 0 =>
          /\ (<<cur.mod, "stderr">> \in errlog) <=> StdCheckFails
          /\ (<<cur.mod, "invalid">> \in errlog) <=> (InvalidModule /\ validate)
          /\ (<<cur.mod, "ambiguous">> \in errlog) <=> AmbiguousModule
          /\ FatalModule => hasFatalError
    /\ hasFatalError <=> (errlog # {})
    /\ pc \in {"exited", "returned"} =>
          /\ (exitStatus # 0) <=> hasFatalError
          /\ (pc = "returned") <=> (exitStatus = 0)
          /\ (pc = "exited") <=> (exitStatus = 1)

\* C5 witness: an ambiguous module without strict validation ended the process
C5_Witness ==
    /\ pc = "exited"
    /\ ~validate
    /\ AmbiguousModule
    /\ errlog = {<<1, "ambiguous">>}
    /\ exitStatus = 1

\* C8: when no module is fatal, the deps attribute is the union of the labels
\* resolved for the modules and the pre-resolved set, each once, in lexicographic
\* order, and is written iff the union is non-empty (also for nil modules).
C8_DepsIsSortedUnion ==
    pc = "returned" =>
        /\ (depsAttr = {}) <=> (resolved \cup resolvedDeps = {})
        /\ \A attr \in depsAttr :
              /\ Range(attr) = resolved \cup resolvedDeps
              /\ Len(attr) = Cardinality(resolved \cup resolvedDeps)
              /\ \A i \in 1..(Len(attr) - 1) : LexLess(attr[i], attr[i + 1])
        /\ modulesRaw = NilModules => resolved = {}

\* C8 witness: two modules resolved to @pip//pypi__n_p and then to //a/b:lib, with
\* :y pre-resolved, give the three labels in lexicographic order
C8_Witness ==
    /\ pc = "returned"
    /\ cur.mod = 2
    /\ cur.dep = {<<"/", "/", "a", "/", "b", ":", "l", "i", "b">>}
    /\ resolvedDeps = {<<":", "y">>}
    /\ depsAttr = {<< <<"/", "/", "a", "/", "b", ":", "l", "i", "b">>,
                      <<":", "y">>, ThirdPartyLabelNp >>}

\* The last iteration reached the first-party index stage: the module has no
\* override directive and no entry of the modules mapping
IndexStageReached == cur.mod # 0 /\ cur.override = {} /\ cur.distribution = {}

\* The candidates of the last iteration once the resolving rule itself is removed
RemainingCandidates == {l \in cur.matches : l # from}

\* The zero-match handling was applied in the last iteration: the
\* standard-library check was made, and a module that is no standard module was
\* recorded as an error under strict validation
ZeroMatchHandlingApplied ==
    /\ cur.isStd \in {"std", "nonstd", "err"}
    /\ cur.dep = {}
    /\ (cur.isStd = "nonstd" /\ validate) => <<cur.mod, "invalid">> \in errlog

\* C11: in the first-party index stage only the matches that are the resolving
\* rule itself are removed and the remaining candidates are resolved as usual:
\* one remaining candidate has its label added to deps, also when the index
\* returned the rule itself beside it; several remaining candidates are narrowed
\* by the project root; and the zero-match handling (standard-library check,
\* strict-validation error) applies when no candidate remains after the removal.
C11_OnlySelfMatchesRemoved ==
    IndexStageReached =>
        /\ Cardinality(RemainingCandidates) = 1
              => /\ cur.dep = {IndexContribution(l) : l \in RemainingCandidates}
                 /\ cur.dep \subseteq Range(deps)
        /\ Cardinality(RemainingCandidates) > 1
              => LET underRoot == {l \in RemainingCandidates :
                                      PrefixedByRoot(l.Pkg, pythonProjectRoot)}
                 IN IF Cardinality(underRoot) = 1
                    THEN cur.dep = {IndexContribution(l) : l \in underRoot}
                    ELSE cur.dep = {} /\ <<cur.mod, "ambiguous">> \in errlog
        /\ RemainingCandidates = {} => ZeroMatchHandlingApplied

(***************************************************************************)
(* Properties of BazelPackageTree                                          *)
(***************************************************************************)

\* The path src of the package leads through a directory that holds a build file
ThroughBoundary(src) ==
    \E d \in fsBuild : HasPrefix(PathJoin(TreePkg, src), d \o <<"/">>)

\* C6: after any sequence of AddPath calls, Paths() has no path that passes
\* through (lies beneath) a directory at which a build file exists.
C6_NoPathThroughBoundary ==
    pc = "tree" => \A src \in BagToSet(Paths(tree)) : ~ThroughBoundary(src)

\* C7: every inserted file path that does not pass through a package boundary
\* is in Paths() exactly once, no path is there twice, and re-inserting a path
\* leaves the tree (and with it Paths()) unchanged.
C7_InsertedFilesOnce ==
    pc = "tree" =>
        /\ \A src \in inserted \cap FsFiles :
              ~ThroughBoundary(src) => CopiesIn(src, Paths(tree)) = 1
        /\ \A src \in BagToSet(Paths(tree)) : CopiesIn(src, Paths(tree)) = 1
        /\ lastAdd.present =>
              (tree = lastAdd.before /\ Paths(tree) = Paths(lastAdd.before))

\* C7 witness: a/f was inserted again after a/g and a/b/f, below the directory a
\* that was inserted too; all three files are reported once
C7_Witness ==
    /\ pc = "tree"
    /\ fsBuild = {}
    /\ lastAdd.present
    /\ lastAdd.parts = <<(<<"a">>), (<<"f">>)>>
    /\ {<<"a">>, <<"a", "/", "g">>, <<"a", "/", "b", "/", "f">>} \subseteq inserted
    /\ CopiesIn(<<"a", "/", "f">>, Paths(tree)) = 1
    /\ CopiesIn(<<"a", "/", "g">>, Paths(tree)) = 1
    /\ CopiesIn(<<"a", "/", "b", "/", "f">>, Paths(tree)) = 1

(***************************************************************************)
(* Properties of evalSrcsExpr                                              *)
(***************************************************************************)

\* The value given for a keyword of the glob call, as a sequence of zero or one
KwargOf(key) ==
    LET at == {j \in 1..Len(srcsExpr.kwargs) : srcsExpr.kwargs[j][1] = key}
    IN IF at = {} THEN <<>> ELSE <<srcsExpr.kwargs[CHOOSE j \in at : TRUE][2]>>

\* The include argument of the glob call, positional or by keyword
IncludeGiven == IF srcsExpr.args # <<>> THEN <<srcsExpr.args[1]>> ELSE KwargOf("include")

\* v is a list of well-formed patterns
IsPatternList(v) ==
    /\ v.type = "list"
    /\ \A j \in 1..Len(v.items) : v.items[j].isString /\ v.items[j].str # <<"[">>

\* The files and directories of the package a list of patterns matches
MatchedBy(v) == UNION {Range(GlobMatches(v.items[j].str).matches) : j \in 1..Len(v.items)}

\* The arguments of the glob call are in error: more than one positional
\* argument, include given twice, an unknown keyword, exclude_directories that
\* is neither 0 nor 1, allow_empty that is no boolean, include or exclude that
\* is no list of patterns
BadGlobArguments ==
    \/ Len(srcsExpr.args) > 1
    \/ srcsExpr.args # <<>> /\ KwargOf("include") # <<>>
    \/ KwargOf("other") # <<>>
    \/ KwargOf("exclude_directories") \notin {<<>>, <<VInt(0)>>, <<VInt(1)>>}
    \/ KwargOf("allow_empty") \notin {<<>>, <<VBool(TRUE)>>, <<VBool(FALSE)>>}
    \/ IncludeGiven = <<>>
    \/ ~IsPatternList(IncludeGiven[1])
    \/ KwargOf("exclude") # <<>> /\ ~IsPatternList(KwargOf("exclude")[1])

\* The glob call has allow_empty=False and every included match is excluded or
\* lies beneath a directory that holds a build file
EmptyGlobRefused ==
    /\ ~BadGlobArguments
    /\ KwargOf("allow_empty") = <<VBool(FALSE)>>
    /\ \A src \in MatchedBy(IncludeGiven[1]) :
          \/ KwargOf("exclude") # <<>> /\ src \in MatchedBy(KwargOf("exclude")[1])
          \/ ThroughBoundary(src)

\* The evaluation of the srcs expression fails
EvaluationFails ==
    \/ srcsExpr.form = "name"
    \/ srcsExpr.form = "glob" /\ (BadGlobArguments \/ EmptyGlobRefused)

\* C9: for a srcs expression that is no list literal, evalSrcsExpr returns an
\* error (and no list) when the expression does not parse; when it parses and
\* its evaluation fails (an unbound name, glob arguments in error, or
\* allow_empty=False with an empty result), evalSrcsExpr returns the empty list
\* and no error; it returns an error in no other case.
C9_EvalFailureGivesEmptyList ==
    pc = "evaluated" =>
        /\ srcsExpr.form # "list" /\ ~srcsExpr.parses
              => srcsResult = [srcs |-> <<>>, isNil |-> TRUE, err |-> TRUE]
        /\ srcsExpr.form # "list" /\ srcsExpr.parses /\ EvaluationFails
              => srcsResult = [srcs |-> <<>>, isNil |-> FALSE, err |-> FALSE]
        /\ srcsResult.err => (srcsExpr.form # "list" /\ ~srcsExpr.parses)

\* C9 witness: glob(["a/f"], allow_empty=False) in a package whose directory a
\* holds a build file has been evaluated; the empty list came back, no error
C9_Witness ==
    /\ pc = "evaluated"
    /\ srcsExpr = GlobExpr(<<VList(<<SItem(<<"a", "/", "f">>)>>)>>,
                           <<(<<"allow_empty", VBool(FALSE)>>)>>, TRUE)
    /\ fsBuild = {PathJoin(TreePkg, <<"a">>)}
    /\ EmptyGlobRefused
    /\ srcsResult = [srcs |-> <<>>, isNil |-> FALSE, err |-> FALSE]

(***************************************************************************)
(* Properties of importSpecFromSrc and Resolver.Imports                    *)
(***************************************************************************)

\* The non-empty segments of a sequence of segments
NonEmptySegments(segments) == SelectSeq(segments, LAMBDA seg : seg # <<>>)

\* The segments of a list joined with "."
RECURSIVE DotJoin(_)
DotJoin(segments) ==
    IF segments = <<>> THEN <<>>
    ELSE IF Len(segments) = 1 THEN segments[1]
    ELSE segments[1] \o <<".">> \o DotJoin(Tail(segments))

\* The directory of src, a file of the package pkg, as segments from the
\* repository root
DirSegments(pkg, src) ==
    NonEmptySegments(SplitPath(pkg) \o SubSeq(SplitPath(src), 1, Len(SplitPath(src)) - 1))

\* The project root the entry imp of the imports attribute of a rule of pkg
\* names, as segments from the repository root
RootSegments(pkg, imp) == CleanSegments(<<>>, SplitPath(pkg) \o SplitPath(imp))

\* The way from the directory root to the directory dir: up for each segment of
\* root that dir does not share, then down the rest of dir
RelativeSegments(root, dir) ==
    LET shared == SharedElements(root, dir)
    IN [j \in 1..(Len(root) - shared) |-> <<".", ".">>] \o SubSeq(dir, shared + 1, Len(dir))

\* The package prefix of the file src of pkg relative to the project root of imp
PackagePrefix(pkg, imp, src) ==
    DotJoin(RelativeSegments(RootSegments(pkg, imp), DirSegments(pkg, src)))

\* The file name of src, and the name without the extension .py
FileNameOf(src) == SplitPath(src)[Len(SplitPath(src))]
ModuleNameOf(src) == SubSeq(FileNameOf(src), 1, Len(FileNameOf(src)) - 3)

\* src is an entrypoint file
IsEntrypoint(src) == FileNameOf(src) = <<"_", "_", "i", "n", "i", "t", "_", "_", ".", "p", "y">>

\* prefix.moduleName, or moduleName alone when the prefix is empty
PrefixedModuleName(pkg, imp, src) ==
    IF PackagePrefix(pkg, imp, src) = <<>> THEN ModuleNameOf(src)
    ELSE PackagePrefix(pkg, imp, src) \o <<".">> \o ModuleNameOf(src)

\* The python files of the srcs list of the rule, in their order, and the
\* entries of its imports attribute ("" when it has none)
PySrcsOfRule ==
    SelectSeq(StringItems(impIn.srcsAttr[1].items),
              LAMBDA src : HasSuffix(src, <<".", "p", "y">>))
ImportsOfRule == IF impIn.imports = <<>> THEN << <<>> >> ELSE impIn.imports

\* Imports has returned for a rule whose srcs is a list
ImportsReturnedForList ==
    /\ pc = "imported"
    /\ impIn.srcsAttr # <<>>
    /\ impIn.srcsAttr[1].form = "list"

\* C10 as claimed: a non-entrypoint file provides prefix.moduleName (moduleName
\* alone when the prefix is empty), and an entrypoint file whose package prefix
\* is non-empty provides both the prefix and prefix.moduleName.
C10_EntrypointProvidesBoth ==
    ImportsReturnedForList =>
        \A i \in 1..Len(PySrcsOfRule), j \in 1..Len(ImportsOfRule) :
            LET src == PySrcsOfRule[i]
                imp == ImportsOfRule[j]
            IN /\ ~IsEntrypoint(src)
                    => PrefixedModuleName(impIn.pkg, imp, src) \in Range(provides.list)
               /\ IsEntrypoint(src) /\ PackagePrefix(impIn.pkg, imp, src) # <<>>
                    => /\ PackagePrefix(impIn.pkg, imp, src) \in Range(provides.list)
                       /\ PrefixedModuleName(impIn.pkg, imp, src) \in Range(provides.list)

\* filepath.Rel fails for the file src of pkg and the project root of imp: the
\* root leads out of the repository, so that the first segment it does not share
\* with the directory of the file is ".."
RelFails(pkg, imp, src) ==
    LET root == RootSegments(pkg, imp)
        shared == SharedElements(root, DirSegments(pkg, src))
    IN Len(root) > shared /\ root[shared + 1] = <<".", ".">>

\* The way filepath.Rel gives from the directory root to the directory dir, two
\* different directories: up for each segment of root that dir does not share,
\* then down the rest of dir, where the repository root counts as the segment "."
RelSegments(root, dir) ==
    [j \in 1..(Len(root) - SharedElements(root, dir)) |-> <<".", ".">>]
    \o (IF dir = <<>> THEN << <<".">> >>
        ELSE SubSeq(dir, SharedElements(root, dir) + 1, Len(dir)))

\* The package prefix importSpecFromSrc forms from what filepath.Rel gives: empty
\* when the directory of the file is the project root
RelPrefix(pkg, imp, src) ==
    IF RootSegments(pkg, imp) = DirSegments(pkg, src) THEN <<>>
    ELSE DotJoin(RelSegments(RootSegments(pkg, imp), DirSegments(pkg, src)))

\* The one identifier of the file src for the project root of imp
IdentifierOf(pkg, imp, src) ==
    IF IsEntrypoint(src) /\ RelPrefix(pkg, imp, src) # <<>>
    THEN RelPrefix(pkg, imp, src)
    ELSE IF RelPrefix(pkg, imp, src) = <<>> THEN ModuleNameOf(src)
    ELSE RelPrefix(pkg, imp, src) \o <<".">> \o ModuleNameOf(src)

\* The identifiers of the python files of the rule, file by file and for each
\* file root by root, then the uuid of the rule if it has one
IdentifiersOfRule ==
    [k \in 1..(Len(PySrcsOfRule) * Len(ImportsOfRule)) |->
        IdentifierOf(impIn.pkg,
                     ImportsOfRule[((k - 1) % Len(ImportsOfRule)) + 1],
                     PySrcsOfRule[((k - 1) \div Len(ImportsOfRule)) + 1])]
    \o impIn.uuid

\* filepath.Rel fails for a python file of the rule and one of its project roots
RelFailsForRule ==
    \E i \in 1..Len(PySrcsOfRule), j \in 1..Len(ImportsOfRule) :
        RelFails(impIn.pkg, ImportsOfRule[j], PySrcsOfRule[i])

\* C10, amended: for every project root, package and source path, the package
\* prefix is the path filepath.Rel gives from the project root to the directory
\* of the file, with "." for "/" and empty when the two are the same directory
\* (for a file in the repository root and a project root below it that path is
\* "../." and the prefix "...."); each python file provides exactly one
\* identifier per project root: an entrypoint file whose package prefix is
\* non-empty provides the prefix alone, every other file provides
\* prefix.moduleName (moduleName alone when the prefix is empty); and when a
\* project root leads out of the repository filepath.Rel fails, importSpecFromSrc
\* panics and nothing is provided.
C10_OneIdentifierPerFileAndRoot ==
    ImportsReturnedForList =>
        IF RelFailsForRule
        THEN provides = [outcome |-> "panic", list |-> <<>>]
        ELSE /\ provides.outcome = (IF IdentifiersOfRule = <<>> THEN "nil" ELSE "list")
             /\ provides.list = IdentifiersOfRule

\* C10 witness: Imports has returned ["s", "a.s"] for the rule of package a
\* with srcs ["s/__init__.py"] and imports ["", ".."]
C10_Witness ==
    /\ ImportsReturnedForList
    /\ impIn.pkg = <<"a">>
    /\ impIn.imports = << <<>>, <<".", ".">> >>
    /\ Len(PySrcsOfRule) = 1
    /\ IsEntrypoint(PySrcsOfRule[1])
    /\ RelPrefix(impIn.pkg, <<".", ".">>, PySrcsOfRule[1]) = <<"a", ".", "s">>
    /\ ~RelFailsForRule
    /\ impIn.uuid = <<>>
    /\ provides = [outcome |-> "list", list |-> << <<"s">>, <<"a", ".", "s">> >>]

====
